---------------------------- MODULE Spec2Model ----------------------------
(***************************************************************************)
(* A model of nanobot's subagent manager (nanobot/agent/subagent.py): the  *)
(* spawn call, the background execution of one run (the bounded           *)
(* tool-calling loop), the announcement on the event bus and the           *)
(* completion hook, together with the capability assembler that builds a   *)
(* run's scoped tool registry and its system prompt.                       *)
(*                                                                         *)
(* Texts are sequences of string tokens, so that formatting is            *)
(* concatenation and two texts are equal only if they were built from the  *)
(* same pieces.  An optional value is a sequence of length at most one:    *)
(* None is << >> and Some(x) is << x >>.                                   *)
(***************************************************************************)
EXTENDS Naturals, Sequences, FiniteSets

VARIABLES
    exec_enabled,    \* self.exec_config.enabled, the global exec policy
    spawn_log,       \* the spawn calls made so far, each with its return value
    runs,            \* the background executions created by spawn, in order
    running_tasks,   \* self._running_tasks: task_id -> background task
    bus,             \* the inbound events published on the message bus
    cap_pc,          \* capability assembly: "idle", "tools", "prompt"
    cap_whitelist,   \* capability assembly: profile_config.tools (optional)
    cap_tools,       \* capability assembly: the scoped registry built
    cap_prompt,      \* capability assembly: the system prompt built
    plugins,         \* the tools directory, a PluginLoader and a target registry
    heartbeat,       \* a HeartbeatService and the background tasks it created
    webhook          \* a WebhookServer and the notify request it handled last

vars == << exec_enabled, spawn_log, runs, running_tasks, bus,
           cap_pc, cap_whitelist, cap_tools, cap_prompt, plugins, heartbeat,
           webhook >>

life_vars == << spawn_log, runs, running_tasks, bus >>
cap_vars == << cap_pc, cap_whitelist, cap_tools, cap_prompt >>
aux_vars == << plugins, heartbeat, webhook >>

---------------------------------------------------------------------------
(* Bounds of the model.                                                    *)

\* spawn calls made in one behaviour (successful or not)
MaxSpawns == 2
\* the manager's default_max_iterations as configured in the model
DefaultMaxIterations == 1
\* max_iterations of the profile "research"
ResearchMaxIterations == 2
\* longest profile tool whitelist the capability assembler is given
MaxWhitelist == 2
\* start() calls made on the heartbeat service in one behaviour
MaxStarts == 3
\* notify requests the webhook server handles in one behaviour
MaxRequests == 2

\* display_label keeps the first 30 characters of the task
LabelLimit == 30

---------------------------------------------------------------------------
(* Optional values and small helpers.                                      *)

None == << >>
Some(x) == << x >>

Range(s) == { s[i] : i \in 1..Len(s) }

Take(s, n) == SubSeq(s, 1, IF Len(s) < n THEN Len(s) ELSE n)

RECURSIVE Join(_, _)
\* sep.join(parts) for a sequence of texts
Join(parts, sep) ==
    IF parts = << >> THEN << >>
    ELSE IF Len(parts) = 1 THEN parts[1]
    ELSE parts[1] \o sep \o Join(Tail(parts), sep)

\* str(n) for the small numbers of the model
NumStr(n) ==
    IF n < 10 THEN << SubSeq(<<"0","1","2","3","4","5","6","7","8","9">>, n + 1, n + 1)[1] >>
    ELSE << "many" >>

\* Python truthiness of an optional text: None and "" are falsy
TruthyText(o) == o # None /\ o[1] # << >>

\* Python truthiness of an optional profile name: None and "" are falsy
TruthyName(o) == o # None /\ o[1] # ""

---------------------------------------------------------------------------
(* Tool names and the scoped registry.                                     *)

\* _TOOL_NAME_MAP: the names of the built-in tools
TOOL_NAME_MAP ==
    { "read_file", "write_file", "edit_file", "list_dir",
      "exec", "web_search", "web_fetch" }

\* names a profile whitelist may hold: the built-ins and one that is not
WhitelistNames == TOOL_NAME_MAP \cup { "message" }

\* ToolRegistry: the registered tool names in registration order
ToolRegistry == << >>

\* ToolRegistry.register: insert, or overwrite in place, by name
Register(tools, name) ==
    IF name \in Range(tools) THEN tools ELSE Append(tools, name)

\* ToolRegistry.has
Has(tools, name) == name \in Range(tools)

\* _register_default_subagent_tools
RegisterDefaultSubagentTools(enabled) ==
    LET t1 == Register(ToolRegistry, "read_file")
        t2 == Register(t1, "write_file")
        t3 == Register(t2, "edit_file")
        t4 == Register(t3, "list_dir")
        t5 == IF enabled THEN Register(t4, "exec") ELSE t4
        t6 == Register(t5, "web_search")
    IN  Register(t6, "web_fetch")

\* RegisterProfileTool without the gate on the global exec policy: what the
\* loop would do if a whitelist could switch exec on
RegisterProfileToolUngated(tools, name, enabled) ==
    IF name \notin TOOL_NAME_MAP THEN tools ELSE Register(tools, name)

\* RegisterProfileTool without the check against the known built-ins
RegisterProfileToolUnchecked(tools, name, enabled) ==
    IF name = "exec" /\ ~enabled THEN tools ELSE Register(tools, name)

\* one pass of the loop of _register_profile_tools over the name `name`
RegisterProfileTool(tools, name, enabled) ==
    IF name \notin TOOL_NAME_MAP THEN tools
    ELSE IF name = "exec" /\ ~enabled THEN tools
    ELSE Register(tools, name)

RECURSIVE RegisterProfileToolsFrom(_, _, _)
RegisterProfileToolsFrom(tools, tool_names, enabled) ==
    IF tool_names = << >> THEN tools
    ELSE RegisterProfileToolsFrom(
             RegisterProfileTool(tools, Head(tool_names), enabled),
             Tail(tool_names), enabled)

\* _register_profile_tools
RegisterProfileTools(tool_names, enabled) ==
    RegisterProfileToolsFrom(ToolRegistry, tool_names, enabled)

\* _run_subagent, "Build tools": the whitelist when the profile has a
\* non-empty one, the default set otherwise
BuildTools(whitelist, enabled) ==
    IF whitelist # None /\ whitelist[1] # << >>
    THEN RegisterProfileTools(whitelist[1], enabled)
    ELSE RegisterDefaultSubagentTools(enabled)

\* _run_subagent, "Determine capability flags from registered tools"
HasExec(tools) == Has(tools, "exec")
HasWeb(tools) == Has(tools, "web_search") \/ Has(tools, "web_fetch")
HasFiles(tools) == Has(tools, "read_file") \/ Has(tools, "write_file")

\* _build_subagent_prompt: the capability sections and the skills section
\* (the rest of the prompt is fixed text)
BuildSubagentPrompt(has_exec, has_web, has_files, skills_content) ==
    LET can1 == IF has_files THEN << "- Read and write files in the workspace" >> ELSE << >>
        cannot1 == IF has_files THEN << >>
                   ELSE << "- Read or write files (no file tools available)" >>
        can2 == IF has_exec THEN << "- Execute shell commands" >> ELSE << >>
        cannot2 == IF has_exec THEN << >>
                   ELSE << "- Execute shell commands (no exec tool available)" >>
        can3 == IF has_web THEN << "- Search the web and fetch web pages" >> ELSE << >>
        cannot3 == IF has_web THEN << >>
                   ELSE << "- Search the web or fetch web pages (no web tools available)" >>
    IN  [ can_do |-> can1 \o can2 \o can3 \o << "- Complete the task thoroughly" >>,
          cannot_do |-> cannot1 \o cannot2 \o cannot3 \o
                        << "- Send messages directly to users (no message tool available)",
                           "- Spawn other subagents",
                           "- Access the main agent's conversation history" >>,
          skills_section |-> IF skills_content # << >>
                             THEN << "\n\n## Pre-loaded Skills\n" >> \o skills_content
                             ELSE << >> ]

\* the system prompt of a run whose scoped registry is `tools`
SystemPrompt(tools, skills_content) ==
    BuildSubagentPrompt(HasExec(tools), HasWeb(tools), HasFiles(tools), skills_content)

NoPrompt == [ can_do |-> << >>, cannot_do |-> << >>, skills_section |-> << >> ]

---------------------------------------------------------------------------
(* The subagent manager's configuration and the inputs of the model.       *)

\* self.model, the manager's default model
ManagerModel == "default-model"

\* self.subagent_profiles: name -> {model, max_iterations, tools, skills}
subagent_profiles ==
    [ research |-> [ model |-> None,
                     max_iterations |-> ResearchMaxIterations,
                     tools |-> Some(<< "web_search" >>),
                     skills |-> << >> ],
      idle     |-> [ model |-> Some("small-model"),
                     max_iterations |-> 0,
                     tools |-> Some(<< "exec", "read_file", "message" >>),
                     skills |-> << "notes" >> ] ]

\* the lexicographic rank of the profile names, for sorted()
NameRank == [ idle |-> 1, research |-> 2 ]

\* sorted(self.subagent_profiles)
SortedProfiles ==
    LET S == DOMAIN subagent_profiles
    IN  CHOOSE s \in [1..Cardinality(S) -> S] :
            /\ Range(s) = S
            /\ \A i, j \in 1..Cardinality(S) : i < j => NameRank[s[i]] < NameRank[s[j]]

\* the values str(uuid.uuid4())[:8] draws from
TaskIds == { "1f0c9a3e", "b7d2e641" }

ShortTask == << "fix", " ", "the", " ", "bug" >>
LongTask == [ i \in 1..(LabelLimit + 1) |-> "x" ]

\* the (task, label, origin_channel, origin_chat_id) arguments of spawn
Requests ==
    { [ task |-> ShortTask, label |-> None,
        origin_channel |-> "cli", origin_chat_id |-> "direct" ],
      [ task |-> LongTask, label |-> Some(<< "survey" >>),
        origin_channel |-> "telegram", origin_chat_id |-> "4711" ] }

RequestWithoutLabel == CHOOSE req \in Requests : req.label = None
RequestWithLabel == CHOOSE req \in Requests : req.label # None

\* the spawn calls of the model: the profile absent, empty, known (with a
\* whitelist and two iterations, or with no iteration at all) and unknown
SpawnCalls ==
    { [ req |-> RequestWithoutLabel, profile |-> None ],
      [ req |-> RequestWithLabel, profile |-> Some("") ],
      [ req |-> RequestWithoutLabel, profile |-> Some("research") ],
      [ req |-> RequestWithLabel, profile |-> Some("research") ],
      [ req |-> RequestWithoutLabel, profile |-> Some("idle") ],
      [ req |-> RequestWithLabel, profile |-> Some("ghost") ] }

\* what str(e) can be for a failure of the setup of a run
SetupFailures == { << "setup failed" >> }

\* the provider's responses: content (nullable), has_tool_calls, tool_calls
Responses ==
    { [ has_tool_calls |-> FALSE, content |-> Some(<< "all done" >>), tool_calls |-> << >> ],
      [ has_tool_calls |-> FALSE, content |-> Some(<< >>), tool_calls |-> << >> ],
      [ has_tool_calls |-> FALSE, content |-> None, tool_calls |-> << >> ],
      [ has_tool_calls |-> TRUE, content |-> None,
        tool_calls |-> << [ id |-> "call_1", name |-> "web_search", arguments |-> "nanobot" ] >> ],
      [ has_tool_calls |-> TRUE, content |-> Some(<< "searching" >>),
        tool_calls |-> << [ id |-> "call_1", name |-> "exec", arguments |-> "ls" ],
                          [ id |-> "call_2", name |-> "web_search", arguments |-> "nanobot" ] >> ] }

\* what a tool body does when it is invoked
ToolOutcomes == { "returns", "raises" }

---------------------------------------------------------------------------
(* Formatting.                                                             *)

\* spawn: label or task[:30] + ("..." if len(task) > 30 else "")
DisplayLabel(label, task) ==
    IF TruthyText(label) THEN label[1]
    ELSE Take(task, LabelLimit) \o (IF Len(task) > LabelLimit THEN << "..." >> ELSE << >>)

\* UnknownProfileText without the list of available profiles
UnknownProfileTextBare(profile) ==
    << "Error: Unknown profile '", profile, "'." >>

\* spawn: the error string for an unknown profile
UnknownProfileText(profile) ==
    LET joined == Join([ i \in 1..Len(SortedProfiles) |-> << SortedProfiles[i] >> ], << ", " >>)
        available == IF joined # << >> THEN joined ELSE << "(none)" >>
    IN  << "Error: Unknown profile '", profile, "'. Available profiles: " >> \o available

\* StartedText without the task identity
StartedTextWithoutId(display_label, task_id) ==
    << "Subagent [" >> \o display_label \o << "] started. I'll notify you when it completes." >>

\* spawn: the acknowledgement
StartedText(display_label, task_id) ==
    << "Subagent [" >> \o display_label \o << "] started (id: ", task_id,
       "). I'll notify you when it completes." >>

\* json.dumps(arguments, ensure_ascii=False)
JsonDumps(arguments) == << "{\"arg\": \"", arguments, "\"}" >>

\* _run_subagent: the wording of iteration exhaustion
ExhaustedText(max_iterations) ==
    << "Task did NOT complete: the subagent ran out of iterations (max " >>
    \o NumStr(max_iterations)
    \o << "). The task may need to be broken into smaller pieces, or the iteration limit needs to be increased." >>

\* ErrorText without the "Error: " prefix: the failure's own text as result
ErrorTextBare(e) == e

\* _run_subagent: f"Error: {str(e)}"
ErrorText(e) == << "Error: " >> \o e

\* what str(e) can be for a failure of the provider call; a failure may
\* carry any text, also the wording of exhaustion
ProviderFailures == { << "provider quota exceeded" >>, ExhaustedText(0) }

\* _announce_result: the status text of the envelope
StatusText(status) == IF status = "ok" THEN "completed successfully" ELSE "failed"

\* _announce_result: announce_content
AnnounceContent(label, task, result, status) ==
    << "[Subagent '" >> \o label \o << "' ", StatusText(status), "]\n\nTask: " >>
    \o task \o << "\n\nResult:\n" >> \o result
    \o << "\n\nSummarize this naturally for the user. Keep it brief (1-2 sentences). Do not mention technical details like \"subagent\" or task IDs." >>

\* AnnounceMessage addressed to one fixed chat, whatever the run's origin
AnnounceMessageToFixedChat(label, task, result, origin, status) ==
    [ channel |-> "system",
      sender_id |-> "subagent",
      chat_id |-> << "cli", ":", "direct" >>,
      content |-> AnnounceContent(label, task, result, status) ]

\* _announce_result: the InboundMessage
AnnounceMessage(label, task, result, origin, status) ==
    [ channel |-> "system",
      sender_id |-> "subagent",
      chat_id |-> << origin.channel, ":", origin.chat_id >>,
      content |-> AnnounceContent(label, task, result, status) ]

\* MessageBus.publish_inbound: the event is appended to the inbound queue
PublishInbound(queue, msg) == Append(queue, msg)

\* ToolRegistry.execute: the tool's result, or error text when the name is
\* not registered or the tool body raises
Execute(tools, name, outcome) ==
    IF ~Has(tools, name) THEN << "Error: Tool '", name, "' not found" >>
    ELSE IF outcome = "raises" THEN << "Error executing ", name, ": ", "tool body failed" >>
    ELSE << "result of ", name >>

\* _load_skills: the skills' text
LoadSkills(skill_names) ==
    Join([ i \in 1..Len(skill_names) |-> << "skill:", skill_names[i] >> ], << "\n" >>)

---------------------------------------------------------------------------
(* One background execution (_run_subagent), as the steps between its      *)
(* suspension points.  A run record holds the arguments of the coroutine,  *)
(* its position, its local variables, and a record of what it has done.    *)

\* the state of a background task right after asyncio.create_task
NewRun(call, task_id, req, display_label, profile) ==
    [ call |-> call,                  \* the spawn call that created it
      task_id |-> task_id,
      task |-> req.task,
      label |-> display_label,
      origin |-> [ channel |-> req.origin_channel, chat_id |-> req.origin_chat_id ],
      profile |-> profile,
      pc |-> "created",
      model |-> ManagerModel,
      max_iterations |-> 0,
      tools |-> ToolRegistry,
      messages |-> << >>,
      iteration |-> 0,
      final_result |-> None,
      pending |-> << >>,              \* tool calls of the response not yet executed
      announce |-> None,              \* the arguments of the _announce_result call
      status |-> "running",           \* running, completed, exhausted, errored
      calls |-> 0,                    \* provider calls made
      tool_responses |-> 0,           \* provider responses that carried tool calls
      final_content |-> None,         \* Some(content) of a response without tool calls
      error |-> None,                 \* Some(str(e)) of the failure caught
      task_exception |-> None,        \* the exception the task ended with
      cancel_requested |-> FALSE,     \* task.cancel() was called on the live task
      published |-> << >> ]           \* the announcements published by this run

\* the call _announce_result(task_id, label, task, result, origin, status)
\* up to its await of bus.publish_inbound
AnnounceResult(run, result, status) ==
    [ run EXCEPT !.pc = "await_publish",
                 !.announce = Some([ result |-> result, status |-> status,
                                     msg |-> AnnounceMessage(run.label, run.task, result,
                                                             run.origin, status) ]) ]

\* HandleException with no handler: the failure ends the task and nothing
\* is announced
HandleExceptionPropagates(run, e) ==
    [ run EXCEPT !.pc = "finished", !.status = "errored", !.error = Some(e),
                 !.task_exception = Some(e) ]

\* _run_subagent lines 227-230: except Exception as e
HandleException(run, e) ==
    AnnounceResult([ run EXCEPT !.status = "errored", !.error = Some(e) ],
                   ErrorText(e), "error")

\* AfterLoop announcing a final answer only: an exhausted run returns silently
AfterLoopSilent(run) ==
    IF run.final_result = None
    THEN [ run EXCEPT !.status = "exhausted", !.pc = "finished" ]
    ELSE AnnounceResult([ run EXCEPT !.status = "completed" ],
                        run.final_result[1], "ok")

\* _run_subagent lines 215-225: after the loop
AfterLoop(run) ==
    IF run.final_result = None
    THEN AnnounceResult([ run EXCEPT !.status = "exhausted" ],
                        ExhaustedText(run.max_iterations), "error")
    ELSE AnnounceResult([ run EXCEPT !.status = "completed" ],
                        run.final_result[1], "ok")

\* LoopHead with the loop condition off by one (<= for <)
LoopHeadOffByOne(run) ==
    IF run.iteration <= run.max_iterations
    THEN [ run EXCEPT !.iteration = @ + 1, !.calls = @ + 1, !.pc = "await_provider" ]
    ELSE AfterLoop(run)

\* _run_subagent lines 170-179: the loop condition, and the provider call
LoopHead(run) ==
    IF run.iteration < run.max_iterations
    THEN [ run EXCEPT !.iteration = @ + 1, !.calls = @ + 1, !.pc = "await_provider" ]
    ELSE AfterLoop(run)

\* Setup taking the manager's defaults whatever the profile says
SetupIgnoringProfile(run, enabled) ==
    LET tools == BuildTools(None, enabled)
    IN  [ run EXCEPT !.model = ManagerModel,
                     !.max_iterations = DefaultMaxIterations,
                     !.tools = tools,
                     !.messages = << [ role |-> "system",
                                       content |-> SystemPrompt(tools, << >>) ],
                                     [ role |-> "user", content |-> run.task ] >>,
                     !.iteration = 0,
                     !.final_result = None ]

\* _run_subagent lines 126-168: profile, model, bound, tools, skills, prompt,
\* messages
Setup(run, enabled) ==
    LET known == TruthyName(run.profile) /\ run.profile[1] \in DOMAIN subagent_profiles
        profile_config == IF known THEN Some(subagent_profiles[run.profile[1]]) ELSE None
        model == IF profile_config # None /\ TruthyName(profile_config[1].model)
                 THEN profile_config[1].model[1] ELSE ManagerModel
        max_iterations == IF profile_config # None
                          THEN profile_config[1].max_iterations
                          ELSE DefaultMaxIterations
        tools == BuildTools(IF profile_config # None THEN profile_config[1].tools ELSE None,
                            enabled)
        skills_content == IF profile_config # None /\ profile_config[1].skills # << >>
                          THEN LoadSkills(profile_config[1].skills) ELSE << >>
    IN  [ run EXCEPT !.model = model,
                     !.max_iterations = max_iterations,
                     !.tools = tools,
                     !.messages = << [ role |-> "system",
                                       content |-> SystemPrompt(tools, skills_content) ],
                                     [ role |-> "user", content |-> run.task ] >>,
                     !.iteration = 0,
                     !.final_result = None ]

\* _run_subagent lines 181-198: the assistant turn of a response with tool calls
AssistantTurn(response) ==
    [ role |-> "assistant",
      content |-> IF TruthyText(response.content) THEN response.content[1] ELSE << >>,
      tool_calls |-> [ i \in 1..Len(response.tool_calls) |->
                         [ id |-> response.tool_calls[i].id,
                           type |-> "function",
                           function |-> [ name |-> response.tool_calls[i].name,
                                          arguments |-> JsonDumps(response.tool_calls[i].arguments) ] ] ] ]

\* ToolTurn tagged with the tool's name only, not with the invocation
ToolTurnUntagged(tool_call, result) ==
    [ role |-> "tool", tool_call_id |-> "", name |-> tool_call.name,
      content |-> result ]

\* _run_subagent lines 205-210: the tool-result turn of one invocation
ToolTurn(tool_call, result) ==
    [ role |-> "tool", tool_call_id |-> tool_call.id, name |-> tool_call.name,
      content |-> result ]

\* _run_subagent lines 181-213: what the run does with the provider's response
OnResponse(run, response) ==
    IF response.has_tool_calls
    THEN [ run EXCEPT !.messages = Append(@, AssistantTurn(response)),
                      !.pending = response.tool_calls,
                      !.tool_responses = @ + 1,
                      !.pc = "await_tool" ]
    ELSE AfterLoop([ run EXCEPT !.final_result = response.content,
                                !.final_content = Some(response.content) ])

\* whether a tool result is the registry's error text
IsToolError(result) == result # << >> /\ result[1] \in { "Error: Tool '", "Error executing " }

\* OnToolResult treating a failed invocation as fatal: the run ends with the
\* tool's error instead of going on
OnToolResultAborts(run, result) ==
    LET appended == [ run EXCEPT !.messages = Append(@, ToolTurn(Head(run.pending), result)),
                                 !.pending = Tail(@) ]
    IN  IF IsToolError(result) THEN HandleException(run, result)
        ELSE IF appended.pending # << >> THEN appended ELSE LoopHead(appended)

\* _run_subagent lines 204-210, and the loop going on: the awaited
\* tools.execute returns `result`
OnToolResult(run, result) ==
    LET appended == [ run EXCEPT !.messages = Append(@, ToolTurn(Head(run.pending), result)),
                                 !.pending = Tail(@) ]
    IN  IF appended.pending # << >> THEN appended ELSE LoopHead(appended)

\* the coroutine returns: its local variables are gone
Returned(run, msg) ==
    [ run EXCEPT !.pc = "finished",
                 !.published = Append(@, msg),
                 !.announce = None,
                 !.tools = ToolRegistry,
                 !.messages = << >>,
                 !.iteration = 0,
                 !.final_result = None,
                 !.pending = << >> ]

---------------------------------------------------------------------------
(* The operations.                                                         *)

NoTask == None

\* the background task of run r is suspended at `pc` and is resumed there:
\* a task whose cancellation was requested is resumed by CancelledError
Resumes(r, pc) == runs[r].pc = pc /\ ~runs[r].cancel_requested

\* CompletionHook leaving the entry of a cancelled task in the map
CompletionHookUnlessCancelled(tasks, run) ==
    IF run.status = "cancelled" THEN tasks ELSE [ tasks EXCEPT ![run.task_id] = NoTask ]

\* spawn line 108, the done callback: self._running_tasks.pop(task_id, None)
CompletionHook(tasks, run) == [ tasks EXCEPT ![run.task_id] = NoTask ]

\* a PluginLoader right after construction (self._cache = None), no tools
\* directory and an empty target registry
PluginsIdle ==
    [ dir |-> None, cache |-> None, registry |-> << >>,
      returned |-> None, raised |-> FALSE, merged |-> FALSE,
      scanned |-> None,       \* the files the directory held when it was scanned
      changed |-> FALSE,      \* the last load() call found the cache set and a
                              \* directory other than the one of the first call
      trace |-> << >> ]       \* the imports and constructions of the last call

\* a HeartbeatService right after construction: no task, not running
HeartbeatIdle ==
    [ enabled |-> TRUE, running |-> FALSE, task |-> None,
      tasks |-> << >>,        \* the background tasks created so far
      starts |-> 0,           \* start() calls made
      first_task |-> None ]   \* Some(service._task) as the first start() since
                              \* construction or the last stop() left it

\* a WebhookServer before construction: no secret, no request handled
WebhookIdle ==
    [ secret |-> << >>, ephemeral |-> FALSE,
      default_channel |-> << >>, default_chat_id |-> << >>,
      handled |-> 0,          \* notify requests handled
      last |-> None ]         \* Some([request, status, published]) of the last one

CapIdle ==
    /\ cap_pc = "idle"
    /\ cap_whitelist = None
    /\ cap_tools = ToolRegistry
    /\ cap_prompt = NoPrompt

Init ==
    /\ exec_enabled = FALSE
    /\ spawn_log = << >>
    /\ runs = << >>
    /\ running_tasks = [ id \in TaskIds |-> NoTask ]
    /\ bus = << >>
    /\ CapIdle
    /\ plugins = PluginsIdle
    /\ heartbeat = HeartbeatIdle
    /\ webhook = WebhookIdle

\* SubagentManager.spawn; task_id is the token uuid4 happens to give
Spawn(req, profile, task_id) ==
    /\ Len(spawn_log) < MaxSpawns
    /\ IF TruthyName(profile) /\ profile[1] \notin DOMAIN subagent_profiles
       THEN /\ spawn_log' = Append(spawn_log,
                   [ req |-> req, profile |-> profile, display_label |-> << >>, task_id |-> "",
                     started |-> FALSE, result |-> UnknownProfileText(profile[1]) ])
            /\ UNCHANGED << runs, running_tasks >>
       ELSE LET display_label == DisplayLabel(req.label, req.task)
            IN  /\ runs' = Append(runs, NewRun(Len(spawn_log) + 1, task_id, req,
                                               display_label, profile))
                /\ running_tasks' = [ running_tasks EXCEPT ![task_id] = Some(Len(runs) + 1) ]
                /\ spawn_log' = Append(spawn_log,
                       [ req |-> req, profile |-> profile, display_label |-> display_label,
                         task_id |-> task_id, started |-> TRUE,
                         result |-> StartedText(display_label, task_id) ])
    /\ UNCHANGED << exec_enabled, bus, cap_vars, aux_vars >>

\* the background task's first step: lines 123-179, up to the first await
Start(r, failure) ==
    /\ Resumes(r, "created")
    /\ runs' = [ runs EXCEPT ![r] =
                   IF failure # None THEN HandleException(runs[r], failure[1])
                   ELSE LoopHead(Setup(runs[r], exec_enabled)) ]
    /\ UNCHANGED << exec_enabled, spawn_log, running_tasks, bus, cap_vars, aux_vars >>

\* the awaited provider.chat returns a response
ProviderReturns(r, response) ==
    /\ Resumes(r, "await_provider")
    /\ runs' = [ runs EXCEPT ![r] = OnResponse(runs[r], response) ]
    /\ UNCHANGED << exec_enabled, spawn_log, running_tasks, bus, cap_vars, aux_vars >>

\* the awaited provider.chat raises
ProviderRaises(r, e) ==
    /\ Resumes(r, "await_provider")
    /\ runs' = [ runs EXCEPT ![r] = HandleException(runs[r], e) ]
    /\ UNCHANGED << exec_enabled, spawn_log, running_tasks, bus, cap_vars, aux_vars >>

\* the awaited tools.execute returns
ToolReturns(r, outcome) ==
    /\ Resumes(r, "await_tool")
    /\ runs' = [ runs EXCEPT ![r] =
                   OnToolResult(runs[r],
                                Execute(runs[r].tools, Head(runs[r].pending).name, outcome)) ]
    /\ UNCHANGED << exec_enabled, spawn_log, running_tasks, bus, cap_vars, aux_vars >>

\* the awaited bus.publish_inbound returns, and with it _run_subagent
Publish(r) ==
    /\ Resumes(r, "await_publish")
    /\ bus' = PublishInbound(bus, runs[r].announce[1].msg)
    /\ runs' = [ runs EXCEPT ![r] = Returned(runs[r], runs[r].announce[1]) ]
    /\ UNCHANGED << exec_enabled, spawn_log, running_tasks, cap_vars, aux_vars >>

\* the done callback of the background task:
\* lambda _: self._running_tasks.pop(task_id, None)
DoneCallback(r) ==
    /\ runs[r].pc = "finished"
    /\ running_tasks' = CompletionHook(running_tasks, runs[r])
    /\ runs' = [ runs EXCEPT ![r].pc = "closed" ]
    /\ UNCHANGED << exec_enabled, spawn_log, bus, cap_vars, aux_vars >>

\* SubagentManager.get_running_count
get_running_count == Cardinality({ id \in TaskIds : running_tasks[id] # NoTask })

Next ==
    \/ \E call \in SpawnCalls, task_id \in TaskIds :
           Spawn(call.req, call.profile, task_id)
    \/ \E r \in 1..Len(runs), failure \in { None } \cup { Some(e) : e \in SetupFailures } :
           Start(r, failure)
    \/ \E r \in 1..Len(runs), response \in Responses : ProviderReturns(r, response)
    \/ \E r \in 1..Len(runs), e \in ProviderFailures : ProviderRaises(r, e)
    \/ \E r \in 1..Len(runs), outcome \in ToolOutcomes : ToolReturns(r, outcome)
    \/ \E r \in 1..Len(runs) : Publish(r)
    \/ \E r \in 1..Len(runs) : DoneCallback(r)

Spec == Init /\ [][Next]_vars

---------------------------------------------------------------------------
(* Properties of the run lifecycle, checked under Spec.                    *)

Runs == 1..Len(runs)

\* the background task has ended (its coroutine returned or raised)
Done(run) == run.pc \in { "finished", "closed" }

\* whether the text `sub` occurs in `text`
Contains(text, sub) ==
    \E i \in 1..(Len(text) + 1) :
        i + Len(sub) - 1 <= Len(text) /\ SubSeq(text, i, i + Len(sub) - 1) = sub

\* the iteration bound a run is entitled to: its profile's, else the default
EffectiveBound(run) ==
    IF TruthyName(run.profile) /\ run.profile[1] \in DOMAIN subagent_profiles
    THEN subagent_profiles[run.profile[1]].max_iterations
    ELSE DefaultMaxIterations

\* the step is a spawn call
SpawnStep == Len(spawn_log') = Len(spawn_log) + 1
LastCall == spawn_log'[Len(spawn_log')]

\* the profile argument is absent (None, or the empty string Python treats
\* alike) or names a known profile
ProfileAccepted(profile) ==
    ~TruthyName(profile) \/ profile[1] \in DOMAIN subagent_profiles

(* C1: every run whose background execution has finished - with a final    *)
(* answer, by exhausting its bound, or by a failure - has published        *)
(* exactly one announcement; no run ever publishes two, and the bus holds  *)
(* nothing but these announcements.                                        *)
C1_ExactlyOneAnnouncement ==
    /\ \A r \in Runs :
          /\ Len(runs[r].published) <= 1
          /\ Done(runs[r]) => Len(runs[r].published) = 1
          /\ \A i \in 1..Len(runs[r].published) :
                \E j \in 1..Len(bus) : bus[j] = runs[r].published[i].msg
    /\ Len(bus) = Cardinality({ r \in Runs : runs[r].published # << >> })

\* one run has ended by a failure and another by exhaustion, both announced
C1_Witness ==
    \E r1, r2 \in Runs :
        /\ Done(runs[r1]) /\ runs[r1].status = "errored"
        /\ Done(runs[r2]) /\ runs[r2].status = "exhausted"
        /\ Len(bus) = 2

(* C2: a spawn call whose profile is absent or known starts exactly one    *)
(* background execution, binds the task identity to it in the live-task    *)
(* map (touching no other key), publishes nothing, and returns the         *)
(* acknowledgement, which contains the label and the identity, while the   *)
(* new execution has taken no step: it has made no provider call.          *)
C2_SpawnStartsOneExecution ==
    [][ (SpawnStep /\ ProfileAccepted(LastCall.profile)) =>
          LET n == Len(runs) + 1
              call == LastCall
          IN  /\ Len(runs') = n
              /\ \A r \in Runs : runs'[r] = runs[r]
              /\ runs'[n].pc = "created"
              /\ runs'[n].calls = 0
              /\ runs'[n].messages = << >>
              /\ runs'[n].published = << >>
              /\ runs'[n].task_id = call.task_id
              /\ runs'[n].task = call.req.task
              /\ running_tasks'[call.task_id] = Some(n)
              /\ \A id \in TaskIds \ { call.task_id } : running_tasks'[id] = running_tasks[id]
              /\ bus' = bus
              /\ call.started
              /\ Contains(call.result, runs'[n].label)
              /\ Contains(call.result, << call.task_id >>)
              /\ TruthyText(call.req.label) => runs'[n].label = call.req.label[1]
      ]_vars

\* spawn has just returned for a known profile and for an absent one: both
\* executions are in the map and neither has taken a step
C2_Witness ==
    /\ Len(runs) = 2
    /\ \A r \in Runs : runs[r].pc = "created" /\ runs[r].calls = 0
    /\ \E r \in Runs : runs[r].profile = Some("research")
    /\ \E r \in Runs : runs[r].profile = None
    /\ \A r \in Runs : running_tasks[runs[r].task_id] = Some(r)

\* every message on the bus is the announcement of a run, and every run
\* was created by a spawn call whose profile was accepted
AnnouncementsComeFromAcceptedCalls ==
    /\ \A j \in 1..Len(bus) :
          \E r \in Runs : runs[r].published # << >> /\ runs[r].published[1].msg = bus[j]
    /\ \A r \in Runs :
          /\ runs[r].call \in 1..Len(spawn_log)
          /\ spawn_log[runs[r].call].started
          /\ ProfileAccepted(spawn_log[runs[r].call].profile)
    /\ Len(runs) = Cardinality({ i \in 1..Len(spawn_log) : spawn_log[i].started })

(* C3: a spawn call with a (non-empty) profile name outside the known      *)
(* profile set returns an error string that names every available profile, *)
(* starts no background execution, leaves the live-task map and the bus    *)
(* unchanged, and no announcement is ever published for it: all            *)
(* announcements come from runs of accepted calls.                         *)
C3_UnknownProfileRejected ==
    [][ /\ (SpawnStep /\ ~ProfileAccepted(LastCall.profile)) =>
              /\ runs' = runs
              /\ running_tasks' = running_tasks
              /\ bus' = bus
              /\ ~LastCall.started
              /\ LastCall.result[1] = "Error: Unknown profile '"
              /\ Contains(LastCall.result, << LastCall.profile[1] >>)
              /\ \A name \in DOMAIN subagent_profiles : Contains(LastCall.result, << name >>)
        /\ AnnouncementsComeFromAcceptedCalls'
      ]_vars

\* an unknown profile was rejected while a run of an accepted call went on
\* to announce its result
C3_Witness ==
    /\ \E i \in 1..Len(spawn_log) : spawn_log[i].profile = Some("ghost") /\ ~spawn_log[i].started
    /\ Len(runs) = 1
    /\ Len(bus) = 1

(* C4: in every state, a task that was spawned and whose identity is no    *)
(* longer a key of the live-task map has a published announcement          *)
(* (announced first, removed after).                                       *)
C4_RemovedOnlyAfterAnnounced ==
    \A r \in Runs :
        running_tasks[runs[r].task_id] = NoTask => Len(runs[r].published) >= 1

(* C5: once a failure has been raised in a run, the run is in the errored  *)
(* state, its task ends without an exception of its own, it makes no       *)
(* further provider call, and the announcement it makes and has published  *)
(* by the time it ends has status error and carries the failure's text.    *)
C5_FailureIsAnnounced ==
    [][ \A r \in 1..Len(runs') :
          runs'[r].error # None =>
            /\ runs'[r].status = "errored"
            /\ runs'[r].task_exception = None
            /\ runs'[r].pc \in { "await_publish", "finished", "closed" }
            /\ runs'[r].pc = "await_publish" =>
                  /\ runs'[r].announce # None
                  /\ runs'[r].announce[1].status = "error"
                  /\ Contains(runs'[r].announce[1].msg.content, runs'[r].error[1])
            /\ Done(runs'[r]) =>
                  /\ Len(runs'[r].published) = 1
                  /\ runs'[r].published[1].status = "error"
                  /\ Contains(runs'[r].published[1].msg.content, runs'[r].error[1])
                  /\ Contains(runs'[r].published[1].msg.content, << "failed" >>)
                  /\ \E j \in 1..Len(bus') : bus'[j] = runs'[r].published[1].msg
            /\ (r \in Runs /\ runs[r].error # None) => runs'[r].calls = runs[r].calls
      ]_vars

\* a provider call failed on the second iteration, after a round of tool
\* calls, and the run has ended
C5_Witness ==
    \E r \in Runs :
        /\ runs[r].error = Some(<< "provider quota exceeded" >>)
        /\ runs[r].calls = 2
        /\ runs[r].pc = "closed"
        /\ \E r2 \in Runs : runs[r2].error \in { Some(e) : e \in SetupFailures }

(* C6: a run whose provider answered with k responses carrying tool calls  *)
(* and then one carrying none has made exactly k+1 provider calls, is in   *)
(* the completed state and has published an announcement with status ok    *)
(* whose result is that response's content, whatever the content (text or  *)
(* null).                                                                  *)
C6_FinalAnswerCompletes ==
    \A r \in Runs :
        (Done(runs[r]) /\ runs[r].final_content # None) =>
            /\ runs[r].calls = runs[r].tool_responses + 1
            /\ runs[r].status = "completed"
            /\ Len(runs[r].published) = 1
            /\ runs[r].published[1].status = "ok"
            /\ runs[r].published[1].result =
                  (IF runs[r].final_content[1] = None THEN << "None" >>
                   ELSE runs[r].final_content[1][1])

(* C7: a run in which no failure was raised and every provider call was    *)
(* answered with tool calls never makes more than max_iterations provider  *)
(* calls; when its loop is over it has made exactly max_iterations calls   *)
(* (none when the bound is 0), is in the exhausted state, and its one      *)
(* announcement carries the ran-out-of-iterations wording.                 *)
C7_ExhaustionAfterMaxIterations ==
    \A r \in Runs :
        (runs[r].error = None /\ runs[r].final_content = None) =>
            /\ runs[r].calls <= EffectiveBound(runs[r])
            /\ runs[r].pc \in { "await_publish", "finished", "closed" } =>
                  /\ runs[r].calls = EffectiveBound(runs[r])
                  /\ runs[r].tool_responses = runs[r].calls
                  /\ runs[r].status = "exhausted"
            /\ runs[r].pc = "await_publish" =>
                  runs[r].announce[1].result = ExhaustedText(EffectiveBound(runs[r]))
            /\ Done(runs[r]) =>
                  /\ Len(runs[r].published) = 1
                  /\ runs[r].published[1].result = ExhaustedText(EffectiveBound(runs[r]))
                  /\ Contains(runs[r].published[1].msg.content,
                              << "Task did NOT complete: the subagent ran out of iterations (max " >>)

\* one run was exhausted after two rounds of tool calls, another with a
\* bound of 0 without any provider call
C7_Witness ==
    \E r1, r2 \in Runs :
        /\ Done(runs[r1]) /\ runs[r1].status = "exhausted" /\ runs[r1].calls = ResearchMaxIterations
        /\ runs[r1].tool_responses = ResearchMaxIterations
        /\ Done(runs[r2]) /\ runs[r2].status = "exhausted" /\ runs[r2].calls = 0

\* the step appends a tool-result turn with error text to the messages of r
FailedInvocation(r) ==
    /\ r \in Runs
    /\ runs[r].pc = "await_tool"
    /\ runs'[r] # runs[r]

(* C8: when an awaited tool invocation fails (the tool body raises, or the *)
(* name is not in the scoped registry), a tool-result turn with the error  *)
(* text is appended to the message list and the run does not end in error: *)
(* the next invocation of the iteration, if any, is awaited; otherwise the *)
(* next provider call is made if the bound allows, and the run is          *)
(* exhausted if it does not.                                               *)
C8_ToolFailureDoesNotEndRun ==
    [][ \A r \in Runs :
          LET tool_call == Head(runs[r].pending)
              failed == \/ ~Has(runs[r].tools, tool_call.name)
                        \/ \E i \in 1..Len(runs'[r].messages) :
                              i > Len(runs[r].messages)
                              /\ runs'[r].messages[i].content[1] = "Error executing "
          IN  (FailedInvocation(r) /\ failed) =>
                /\ runs'[r].error = None
                /\ runs'[r].status # "errored"
                /\ runs'[r].messages = Append(runs[r].messages, runs'[r].messages[Len(runs'[r].messages)])
                /\ LET turn == runs'[r].messages[Len(runs'[r].messages)]
                   IN  /\ turn.role = "tool"
                       /\ turn.tool_call_id = tool_call.id
                       /\ turn.name = tool_call.name
                       /\ IsToolError(turn.content)
                /\ Len(runs[r].pending) > 1 =>
                      /\ runs'[r].pc = "await_tool"
                      /\ runs'[r].pending = Tail(runs[r].pending)
                /\ (Len(runs[r].pending) = 1 /\ runs[r].calls < EffectiveBound(runs[r])) =>
                      /\ runs'[r].pc = "await_provider"
                      /\ runs'[r].calls = runs[r].calls + 1
                /\ (Len(runs[r].pending) = 1 /\ runs[r].calls >= EffectiveBound(runs[r])) =>
                      /\ runs'[r].pc = "await_publish"
                      /\ runs'[r].status = "exhausted"
      ]_vars

\* the first invocation of an iteration failed (unknown name), the second
\* was executed and failed too (the tool raised), and the run is in its
\* next provider call
C8_Witness ==
    \E r \in Runs :
        /\ runs[r].pc = "await_provider"
        /\ runs[r].calls = 2
        /\ Len(runs[r].messages) = 5
        /\ runs[r].messages[4].role = "tool" /\ runs[r].messages[4].content[1] = "Error: Tool '"
        /\ runs[r].messages[5].role = "tool" /\ runs[r].messages[5].content[1] = "Error executing "

(* C9: exhaustion and a thrown failure are distinct outcomes: each         *)
(* publishes an announcement tagged with a status, and the announcement    *)
(* of an exhausted run differs in wording, in its result and so in its     *)
(* content, from the announcement of every errored run, whatever the       *)
(* failure's own text.                                                     *)
C9_ExhaustedDiffersFromErrored ==
    \A r1, r2 \in Runs :
        (/\ runs[r1].status = "exhausted" /\ runs[r1].published # << >>
         /\ runs[r2].status = "errored" /\ runs[r2].published # << >>) =>
            LET a == runs[r1].published[1]
                b == runs[r2].published[1]
            IN  /\ a.status \in { "ok", "error" } /\ b.status \in { "ok", "error" }
                /\ Contains(a.msg.content, << StatusText(a.status) >>)
                /\ Contains(b.msg.content, << StatusText(b.status) >>)
                /\ a.result # b.result
                /\ a.msg.content # b.msg.content
                /\ a.result[1] = "Task did NOT complete: the subagent ran out of iterations (max "
                /\ b.result[1] = "Error: "

\* an exhausted run and an errored run with the same label and task, whose
\* failure text is itself the wording of exhaustion
C9_Witness ==
    \E r1, r2 \in Runs :
        /\ runs[r1].status = "exhausted" /\ runs[r1].published # << >>
        /\ runs[r2].status = "errored" /\ runs[r2].published # << >>
        /\ runs[r1].label = runs[r2].label /\ runs[r1].task = runs[r2].task
        /\ runs[r2].error = Some(ExhaustedText(EffectiveBound(runs[r1])))

---------------------------------------------------------------------------
(* The capability assembler on its own: every whitelist up to MaxWhitelist *)
(* names, under both settings of the exec policy.                          *)

RECURSIVE SeqsUpTo(_, _)
SeqsUpTo(S, n) ==
    IF n = 0 THEN { << >> }
    ELSE LET shorter == SeqsUpTo(S, n - 1)
         IN  shorter \cup { Append(s, x) : s \in shorter, x \in S }

Whitelists == { None } \cup { Some(w) : w \in SeqsUpTo(WhitelistNames, MaxWhitelist) }

LifeIdle ==
    /\ spawn_log = << >>
    /\ runs = << >>
    /\ running_tasks = [ id \in TaskIds |-> None ]
    /\ bus = << >>

CapInit ==
    /\ exec_enabled \in BOOLEAN
    /\ LifeIdle
    /\ cap_pc = "idle"
    /\ cap_whitelist \in Whitelists
    /\ cap_tools = ToolRegistry
    /\ cap_prompt = NoPrompt
    /\ plugins = PluginsIdle
    /\ heartbeat = HeartbeatIdle
    /\ webhook = WebhookIdle

\* _run_subagent lines 137-141
AssembleTools ==
    /\ cap_pc = "idle"
    /\ cap_tools' = BuildTools(cap_whitelist, exec_enabled)
    /\ cap_pc' = "tools"
    /\ UNCHANGED << exec_enabled, cap_whitelist, cap_prompt, life_vars, aux_vars >>

\* _run_subagent lines 148-160
AssemblePrompt ==
    /\ cap_pc = "tools"
    /\ cap_prompt' = SystemPrompt(cap_tools, << >>)
    /\ cap_pc' = "prompt"
    /\ UNCHANGED << exec_enabled, cap_whitelist, cap_tools, life_vars, aux_vars >>

CapNext == AssembleTools \/ AssemblePrompt

SpecCaps == CapInit /\ [][CapNext]_vars

---------------------------------------------------------------------------
(* Properties of the capability assembler, checked under SpecCaps.         *)

(* C10: when the global exec policy is disabled, the scoped registry built *)
(* for a run never contains exec, whether it is the default set or a       *)
(* profile whitelist (also one that names exec), and the system prompt     *)
(* built from it lists shell execution among what the subagent cannot do   *)
(* and not among what it can do.                                           *)
C10_ExecNeverEnabledByProfile ==
    ~exec_enabled =>
        /\ cap_pc \in { "tools", "prompt" } => ~Has(cap_tools, "exec")
        /\ cap_pc = "prompt" =>
              /\ "- Execute shell commands (no exec tool available)" \in Range(cap_prompt.cannot_do)
              /\ "- Execute shell commands" \notin Range(cap_prompt.can_do)

\* the prompt was built for a whitelist that names exec, with exec disabled
C10_Witness ==
    /\ ~exec_enabled
    /\ cap_pc = "prompt"
    /\ cap_whitelist # None
    /\ "exec" \in Range(cap_whitelist[1])

(* C11: the system prompt built for a scoped registry never claims a       *)
(* capability the registry does not contain: it lists reading and writing  *)
(* files among what the subagent can do only if the registry holds         *)
(* read_file and write_file, shell execution only if it holds exec, and    *)
(* searching the web and fetching pages only if it holds web_search and    *)
(* web_fetch.                                                              *)
C11_PromptClaimsOnlyGrantedCapabilities ==
    cap_pc = "prompt" =>
        /\ "- Read and write files in the workspace" \in Range(cap_prompt.can_do) =>
              Has(cap_tools, "read_file") /\ Has(cap_tools, "write_file")
        /\ "- Execute shell commands" \in Range(cap_prompt.can_do) =>
              Has(cap_tools, "exec")
        /\ "- Search the web and fetch web pages" \in Range(cap_prompt.can_do) =>
              Has(cap_tools, "web_search") /\ Has(cap_tools, "web_fetch")

\* the profile declares a tool whitelist: a non-empty list of names
DeclaresWhitelist(whitelist) == whitelist # None /\ whitelist[1] # << >>

(* C24: for a profile that declares a tool whitelist, the scoped registry  *)
(* holds exactly the whitelisted names that are known built-in tools, exec *)
(* only when it is globally enabled, each once and no tool outside the     *)
(* whitelist; names that are not known built-ins are dropped and the       *)
(* assembly goes on to build the prompt.                                   *)
C24_RegistryIsExactlyTheWhitelist ==
    (cap_pc \in { "tools", "prompt" } /\ DeclaresWhitelist(cap_whitelist)) =>
        /\ Range(cap_tools) =
              { name \in Range(cap_whitelist[1]) :
                  name \in TOOL_NAME_MAP /\ (name = "exec" => exec_enabled) }
        /\ \A i, j \in 1..Len(cap_tools) : cap_tools[i] = cap_tools[j] => i = j
        /\ cap_pc = "prompt" => cap_prompt # NoPrompt

\* a whitelist naming exec and a name that is no built-in, with exec
\* enabled: the registry holds exec alone and the prompt was built
C24_Witness ==
    /\ exec_enabled
    /\ cap_pc = "prompt"
    /\ cap_whitelist = Some(<< "message", "exec" >>)
    /\ cap_tools = << "exec" >>

---------------------------------------------------------------------------
(* Properties of concurrent runs and of one run's message list, checked    *)
(* under Spec.                                                             *)

\* the spawn call that created the run
CallOf(run) == spawn_log[run.call]

\* origin_channel:origin_chat_id of a spawn call
OriginKey(call) == << call.req.origin_channel, ":", call.req.origin_chat_id >>

(* C12: every announcement is an inbound event with channel "system" and   *)
(* sender "subagent", addressed to origin_channel:origin_chat_id of the    *)
(* spawn call that created its run and built from that call's task and     *)
(* label; with several runs in flight it is never addressed to another     *)
(* call's origin and never carries another call's task text, and the bus   *)
(* holds nothing but such announcements.                                   *)
C12_AnnouncementGoesToOwnOrigin ==
    /\ \A r \in Runs :
          \A i \in 1..Len(runs[r].published) :
              LET a == runs[r].published[i]
                  call == CallOf(runs[r])
              IN  /\ a.msg.channel = "system"
                  /\ a.msg.sender_id = "subagent"
                  /\ a.msg.chat_id = OriginKey(call)
                  /\ a.msg.content =
                        AnnounceContent(call.display_label, call.req.task, a.result, a.status)
                  /\ Contains(a.msg.content, call.req.task)
                  /\ Contains(a.msg.content, call.display_label)
                  /\ \E j \in 1..Len(bus) : bus[j] = a.msg
                  /\ \A r2 \in Runs :
                        CallOf(runs[r2]).req # call.req =>
                            /\ a.msg.chat_id # OriginKey(CallOf(runs[r2]))
                            /\ ~Contains(a.msg.content, CallOf(runs[r2]).req.task)
                            /\ ~Contains(a.msg.content, CallOf(runs[r2]).display_label)
    /\ \A j \in 1..Len(bus) :
          \E r \in Runs : runs[r].published # << >> /\ runs[r].published[1].msg = bus[j]

\* two runs with different origins were in flight at once and the one
\* spawned second announced first
C12_Witness ==
    /\ Len(runs) = 2 /\ Len(bus) = 2
    /\ CallOf(runs[1]).req # CallOf(runs[2]).req
    /\ bus[1] = runs[2].published[1].msg
    /\ bus[2] = runs[1].published[1].msg
    /\ bus[1].chat_id # bus[2].chat_id

\* the index of the last assistant turn before position i (0 if none)
LastAssistantBefore(msgs, i) ==
    LET A == { a \in 1..(i - 1) : msgs[a].role = "assistant" }
    IN  IF A = { } THEN 0 ELSE CHOOSE a \in A : \A b \in A : b <= a

\* the turns after the first two come in groups: an assistant turn
\* recording n invocations, then the tool-result turns of these invocations
\* in their order, each tagged with its invocation's identity; a group
\* begins only when the group before it is complete
Grouped(msgs) ==
    \A i \in 3..Len(msgs) :
        LET a == LastAssistantBefore(msgs, i)
        IN  /\ msgs[i].role \in { "assistant", "tool" }
            /\ i = 3 => msgs[i].role = "assistant"
            /\ (msgs[i].role = "assistant" /\ a > 0) =>
                  i - a - 1 = Len(msgs[a].tool_calls)
            /\ msgs[i].role = "tool" =>
                  /\ a > 0
                  /\ i - a <= Len(msgs[a].tool_calls)
                  /\ msgs[i].tool_call_id = msgs[a].tool_calls[i - a].id
                  /\ msgs[i].name = msgs[a].tool_calls[i - a].function.name

\* the tool-result turns the last group still lacks
Missing(msgs) ==
    LET a == LastAssistantBefore(msgs, Len(msgs) + 1)
    IN  IF a = 0 THEN 0 ELSE Len(msgs[a].tool_calls) - (Len(msgs) - a)

(* C17: within one run the message list is append-only and ordered: once   *)
(* built it starts with the system prompt and the task as first user turn  *)
(* and every step of the run before it ends keeps what the list held and   *)
(* appends at most one turn; each provider response with n tool calls      *)
(* appends one assistant turn followed by n tool-result turns, one per     *)
(* invocation, in invocation order and tagged with the invocation's        *)
(* identity; and a provider call is made only when no tool-result turn is  *)
(* missing.                                                                *)
C17_MessagesAppendOnlyAndOrdered ==
    [][ \A r \in 1..Len(runs') :
          LET msgs == runs'[r].messages
          IN  /\ (r \in Runs /\ runs[r].messages # << >> /\ ~Done(runs'[r])) =>
                    /\ Len(msgs) \in { Len(runs[r].messages), Len(runs[r].messages) + 1 }
                    /\ SubSeq(msgs, 1, Len(runs[r].messages)) = runs[r].messages
              /\ runs'[r].pc \in { "await_provider", "await_tool" } => Len(msgs) >= 2
              /\ msgs # << >> =>
                    /\ msgs[1].role = "system"
                    /\ msgs[2] = [ role |-> "user", content |-> runs'[r].task ]
                    /\ Grouped(msgs)
                    /\ Cardinality({ i \in 1..Len(msgs) : msgs[i].role = "assistant" })
                          = runs'[r].tool_responses
                    /\ runs'[r].pc = "await_provider" => Missing(msgs) = 0
                    /\ runs'[r].pc = "await_tool" =>
                          /\ Missing(msgs) = Len(runs'[r].pending)
                          /\ Missing(msgs) > 0
                    /\ (r \in Runs /\ runs'[r].calls > runs[r].calls) => Missing(msgs) = 0
      ]_vars

\* a run answered a response with two invocations and then one with a
\* single invocation: system, user, assistant, tool, tool, assistant, tool
C17_Witness ==
    \E r \in Runs :
        /\ Len(runs[r].messages) = 7
        /\ runs[r].messages[3].role = "assistant"
        /\ Len(runs[r].messages[3].tool_calls) = 2
        /\ runs[r].messages[4].tool_call_id = "call_1"
        /\ runs[r].messages[5].tool_call_id = "call_2"
        /\ runs[r].messages[6].role = "assistant"
        /\ runs[r].messages[7].role = "tool"

\* the model a run is entitled to: its profile's when it sets one, else
\* the manager's
EffectiveModel(run) ==
    IF /\ TruthyName(run.profile)
       /\ run.profile[1] \in DOMAIN subagent_profiles
       /\ TruthyName(subagent_profiles[run.profile[1]].model)
    THEN subagent_profiles[run.profile[1]].model[1]
    ELSE ManagerModel

\* the run's setup went through (it did not fail before the loop)
SetUp(run) == run.pc # "created" /\ ~(run.error # None /\ run.calls = 0)

(* C18: in every reachable state the number of provider calls a run has    *)
(* made is at most its effective iteration bound - its profile's           *)
(* max_iterations when it was spawned with a profile, the manager's        *)
(* default otherwise - and the bound and the model the run works with are  *)
(* the effective ones (the profile's model when it sets one, else the      *)
(* manager's).                                                             *)
C18_CallsWithinEffectiveBound ==
    \A r \in Runs :
        /\ runs[r].calls <= EffectiveBound(runs[r])
        /\ runs[r].tool_responses <= runs[r].calls
        /\ SetUp(runs[r]) =>
              /\ runs[r].max_iterations = EffectiveBound(runs[r])
              /\ runs[r].model = EffectiveModel(runs[r])
        /\ runs[r].pc = "await_provider" => runs[r].iteration = runs[r].calls

\* a run with the profile research (no model of its own) has made more
\* calls than the default allows, a run with the profile idle (a model of
\* its own, bound 0) none, and a run without profile one
C18_Witness ==
    \E r1, r2 \in Runs :
        /\ runs[r1].profile = Some("research")
        /\ runs[r1].calls = ResearchMaxIterations
        /\ runs[r1].calls > DefaultMaxIterations
        /\ runs[r1].model = ManagerModel
        /\ runs[r2].profile = Some("idle")
        /\ SetUp(runs[r2])
        /\ runs[r2].model = "small-model"
        /\ runs[r2].calls = 0

(* C25: no two tasks that are live at the same time share a task          *)
(* identity: a spawn call never overwrites an entry of the live-task map,  *)
(* and the completion hook of a task never removes the entry of another    *)
(* task.                                                                   *)
C25_LiveIdentitiesAreDistinct ==
    [][ /\ \A r1, r2 \in 1..Len(runs') :
              (r1 # r2 /\ runs'[r1].pc # "closed" /\ runs'[r2].pc # "closed") =>
                  runs'[r1].task_id # runs'[r2].task_id
        /\ (SpawnStep /\ LastCall.started) => running_tasks[LastCall.task_id] = NoTask
        /\ \A r \in Runs :
              (runs[r].pc = "finished" /\ runs'[r].pc = "closed") =>
                  running_tasks[runs[r].task_id] \in { NoTask, Some(r) }
      ]_vars

---------------------------------------------------------------------------
(* Cancellation from outside (shutdown): task.cancel() on a live           *)
(* background task.  The task is then resumed by CancelledError, which     *)
(* the handler of _run_subagent (except Exception) does not catch: the     *)
(* task ends cancelled, and its done callback runs like any other.         *)

\* the coroutine is left by CancelledError: nothing is announced, its local
\* variables are gone
CancelledRun(run) ==
    [ run EXCEPT !.pc = "finished",
                 !.status = "cancelled",
                 !.task_exception = Some(<< "CancelledError" >>),
                 !.cancel_requested = FALSE,
                 !.announce = None,
                 !.tools = ToolRegistry,
                 !.messages = << >>,
                 !.iteration = 0,
                 !.final_result = None,
                 !.pending = << >> ]

\* task.cancel() on the background task of run r, before its first step or
\* while it awaits the provider, a tool or the publish
Cancel(r) ==
    /\ runs[r].pc \in { "created", "await_provider", "await_tool", "await_publish" }
    /\ ~runs[r].cancel_requested
    /\ runs' = [ runs EXCEPT ![r].cancel_requested = TRUE ]
    /\ UNCHANGED << exec_enabled, spawn_log, running_tasks, bus, cap_vars, aux_vars >>

\* the event loop resumes the cancelled task: CancelledError ends it
Cancelled(r) ==
    /\ runs[r].cancel_requested
    /\ runs' = [ runs EXCEPT ![r] = CancelledRun(runs[r]) ]
    /\ UNCHANGED << exec_enabled, spawn_log, running_tasks, bus, cap_vars, aux_vars >>

\* the spawn calls and provider responses of the runs that are cancelled
CancelSpawnCalls == { call \in SpawnCalls : call.req = RequestWithoutLabel }
CancelResponses == { response \in Responses : response.content # None }

CancelNext ==
    \/ \E call \in CancelSpawnCalls, task_id \in TaskIds :
           Spawn(call.req, call.profile, task_id)
    \/ \E r \in 1..Len(runs), failure \in { None } \cup { Some(e) : e \in SetupFailures } :
           Start(r, failure)
    \/ \E r \in 1..Len(runs), response \in CancelResponses : ProviderReturns(r, response)
    \/ \E r \in 1..Len(runs), e \in SetupFailures : ProviderRaises(r, e)
    \/ \E r \in 1..Len(runs), outcome \in ToolOutcomes : ToolReturns(r, outcome)
    \/ \E r \in 1..Len(runs) : Publish(r)
    \/ \E r \in 1..Len(runs) : DoneCallback(r)
    \/ \E r \in 1..Len(runs) : Cancel(r)
    \/ \E r \in 1..Len(runs) : Cancelled(r)

\* the event loop runs what it has scheduled: the step of a cancelled task
\* and the done callback of an ended task
LoopFairness ==
    \A r \in 1..MaxSpawns :
        /\ WF_vars(r \in Runs /\ Cancelled(r))
        /\ WF_vars(r \in Runs /\ DoneCallback(r))

SpecCancel == Init /\ [][CancelNext]_vars /\ LoopFairness

\* the task of run r has no entry in the live-task map
Absent(r) == r \in Runs /\ running_tasks[runs[r].task_id] # Some(r)

(* C19: a background task that has ended - with a result, by a failure or  *)
(* cancelled - or whose cancellation was requested while it was awaiting   *)
(* the provider, a tool or the publish (or before its first step) is       *)
(* eventually absent from the live-task map, its done callback having run. *)
C19_CancelledTaskLeavesMap ==
    \A r \in 1..MaxSpawns :
        (r \in Runs /\ (Done(runs[r]) \/ runs[r].cancel_requested))
            ~> (Absent(r) /\ runs[r].pc = "closed")

\* two tasks were cancelled, one while awaiting a tool and one while
\* awaiting the publish of its announcement; both have left the map
C19_Witness ==
    /\ Len(runs) = 2
    /\ \A r \in Runs : runs[r].status = "cancelled" /\ runs[r].pc = "closed"
    /\ \A id \in TaskIds : running_tasks[id] = NoTask
    /\ runs[1].tool_responses = 1 /\ runs[1].calls = 1
    /\ runs[2].final_content # None /\ runs[2].published = << >>

\* the tasks that were spawned and whose completion hook has not run
Unhooked == { r \in Runs : runs[r].pc # "closed" }

(* C20: after any interleaving of spawn calls and run completions the      *)
(* live-task map holds exactly the tasks that were spawned and whose       *)
(* completion hook has not yet run - each of them under its identity, and  *)
(* nothing else - and get_running_count() is their number.                 *)
C20_MapHoldsExactlyLiveTasks ==
    /\ \A r \in Runs : r \in Unhooked <=> running_tasks[runs[r].task_id] = Some(r)
    /\ \A id \in TaskIds :
          running_tasks[id] # NoTask => running_tasks[id][1] \in Unhooked
    /\ get_running_count = Cardinality(Unhooked)

---------------------------------------------------------------------------
(* The plugin loader (nanobot/agent/tools/plugins.py): the tools directory *)
(* holds any subset of the files below.  A file either raises while it is  *)
(* imported or defines classes, given here in the order of                 *)
(* inspect.getmembers (sorted by class name).  A class is a concrete Tool  *)
(* subclass ("tool"), an abstract one, or something else (Tool itself, an  *)
(* imported helper).  Constructing it with the context succeeds, is        *)
(* rejected by the signature (TypeError), or fails inside the constructor  *)
(* body with a TypeError or with another error; likewise without           *)
(* arguments.  Reading the instance's name gives a name or raises.         *)

ToolType(cls, with_context, no_arg, tool_name) ==
    [ cls |-> cls, kind |-> "tool", with_context |-> with_context, no_arg |-> no_arg,
      tool_name |-> tool_name ]

OtherClass(cls, kind) ==
    [ cls |-> cls, kind |-> kind, with_context |-> "ok", no_arg |-> "ok", tool_name |-> None ]

\* the files the tools directory may hold, by filename
PluginFiles ==
    [ base    |-> [ filename |-> "_base.py", import_raises |-> FALSE,
                    types |-> << ToolType("BaseHelperTool", "ok", "ok", Some("helper")) >> ],
      dice    |-> [ filename |-> "dice.py", import_raises |-> FALSE,
                    types |-> << ToolType("DiceTool", "rejects_context", "ok", Some("roll_dice")),
                                 OtherClass("Tool", "base") >> ],
      faulty  |-> [ filename |-> "faulty.py", import_raises |-> TRUE,
                    types |-> << ToolType("NeverSeenTool", "ok", "ok", Some("never_seen")) >> ],
      greet   |-> [ filename |-> "greet.py", import_raises |-> FALSE,
                    types |-> << ToolType("GreetTool", "ok", "rejects_context", Some("greet")),
                                 ToolType("ShellTool", "ok", "ok", Some("exec")),
                                 OtherClass("ToolContext", "other") >> ],
      notes   |-> [ filename |-> "notes.py", import_raises |-> FALSE,
                    types |-> << OtherClass("AbstractNoteTool", "abstract"),
                                 ToolType("ListNotesTool", "ok", "rejects_context", Some("list_notes")),
                                 ToolType("LockedTool", "error_in_body", "ok", Some("locked")),
                                 ToolType("NamelessTool", "ok", "ok", None),
                                 ToolType("SaveNoteTool", "ok", "rejects_context", Some("save_note")) >> ],
      weather |-> [ filename |-> "weather.py", import_raises |-> FALSE,
                    types |-> << ToolType("RollTool", "type_error_in_body", "ok", Some("roll_dice")),
                                 ToolType("WeatherTool", "ok", "ok", Some("weather")) >> ] ]

FileKeys == DOMAIN PluginFiles

\* the files in lexicographic order of their filenames ("_" sorts before
\* the lower-case letters)
FileOrder == << "base", "dice", "faulty", "greet", "notes", "weather" >>

\* path.name.startswith("_")
StartsWithUnderscore(key) == key = "base"

\* sorted(self.tools_dir.glob("*.py"))
SortedGlob(dir) == SelectSeq(FileOrder, LAMBDA key : key \in dir)

\* PluginLoader._instantiate: cls(context=self.context), and cls() when
\* that raises TypeError; ok is FALSE when the construction raises
Instantiate(type) ==
    IF type.with_context = "ok"
    THEN [ ok |-> TRUE, context |-> TRUE,
           attempts |-> << [ context |-> TRUE, outcome |-> "ok" ] >> ]
    ELSE IF type.with_context \in { "rejects_context", "type_error_in_body" }
    THEN [ ok |-> type.no_arg = "ok", context |-> FALSE,
           attempts |-> << [ context |-> TRUE, outcome |-> "TypeError" ],
                           [ context |-> FALSE,
                             outcome |-> IF type.no_arg = "ok" THEN "ok"
                                         ELSE IF type.no_arg = "error" THEN "Exception"
                                         ELSE "TypeError" ] >> ]
    ELSE [ ok |-> FALSE, context |-> TRUE,
           attempts |-> << [ context |-> TRUE, outcome |-> "Exception" ] >> ]

\* what a call did: the import of a file, the construction of a class
Imported(key, outcome) ==
    [ event |-> "import", file |-> key, cls |-> "", context |-> FALSE, outcome |-> outcome ]

Constructed(key, cls, attempts) ==
    [ i \in 1..Len(attempts) |->
        [ event |-> "construct", file |-> key, cls |-> cls,
          context |-> attempts[i].context, outcome |-> attempts[i].outcome ] ]

\* a name of the mapping `tools` (a dict kept as the sequence of its
\* values in insertion order)
HasName(tools, name) == \E i \in 1..Len(tools) : tools[i].name = name

\* Collect letting a later tool replace an earlier one of the same name
CollectLastWins(tools, instance) ==
    IF HasName(tools, instance.name)
    THEN [ i \in 1..Len(tools) |->
             IF tools[i].name = instance.name THEN instance ELSE tools[i] ]
    ELSE Append(tools, instance)

\* PluginLoader._load_file lines 105-109: a name already collected is
\* skipped, a new one is added
Collect(tools, instance) ==
    IF HasName(tools, instance.name) THEN tools ELSE Append(tools, instance)

RECURSIVE LoadTypes(_, _, _)
\* PluginLoader._load_file lines 94-109: the loop over the classes of the
\* module; raised is TRUE when an exception leaves the loop
LoadTypes(key, types, tools) ==
    IF types = << >> THEN [ tools |-> tools, raised |-> FALSE, trace |-> << >> ]
    ELSE LET type == Head(types)
             made == Instantiate(type)
             done == Constructed(key, type.cls, made.attempts)
         IN  IF type.kind # "tool" THEN LoadTypes(key, Tail(types), tools)
             ELSE IF ~made.ok
             THEN [ LoadTypes(key, Tail(types), tools) EXCEPT !.trace = done \o @ ]
             ELSE IF type.tool_name = None
             THEN [ tools |-> tools, raised |-> TRUE, trace |-> done ]
             ELSE [ LoadTypes(key, Tail(types),
                              Collect(tools, [ name |-> type.tool_name[1], file |-> key,
                                               cls |-> type.cls, context |-> made.context ]))
                      EXCEPT !.trace = done \o @ ]

\* PluginLoader._load_file: exec_module raises, or the classes are collected
LoadFile(key, tools) ==
    IF PluginFiles[key].import_raises
    THEN [ tools |-> tools, raised |-> TRUE, trace |-> << Imported(key, "raises") >> ]
    ELSE [ LoadTypes(key, PluginFiles[key].types, tools) EXCEPT
             !.trace = << Imported(key, "ok") >> \o @ ]

\* TryLoadFile without the handler: a failure of one file leaves the scan
TryLoadFileUncaught(key, tools) == LoadFile(key, tools)

\* PluginLoader.load lines 64-67: try _load_file, except Exception: log
TryLoadFile(key, tools) ==
    [ LoadFile(key, tools) EXCEPT !.raised = FALSE ]

RECURSIVE Scan(_, _)
\* PluginLoader.load lines 61-67: the loop over the sorted files
Scan(keys, tools) ==
    IF keys = << >> THEN [ tools |-> tools, raised |-> FALSE, trace |-> << >> ]
    ELSE IF StartsWithUnderscore(Head(keys)) THEN Scan(Tail(keys), tools)
    ELSE LET res == TryLoadFile(Head(keys), tools)
         IN  IF res.raised THEN res
             ELSE [ Scan(Tail(keys), res.tools) EXCEPT !.trace = res.trace \o @ ]

\* Load without the cache: every call scans the directory again
LoadUncached(p) ==
    IF p.dir = None
    THEN [ p EXCEPT !.cache = Some(<< >>), !.returned = Some(<< >>), !.raised = FALSE,
                    !.changed = (p.cache # None /\ p.dir # p.scanned), !.trace = << >> ]
    ELSE LET res == Scan(SortedGlob(p.dir[1]), << >>)
         IN  [ p EXCEPT !.cache = Some(res.tools), !.returned = Some(res.tools),
                        !.raised = FALSE,
                        !.changed = (p.cache # None /\ p.dir # p.scanned),
                        !.trace = res.trace ]

\* PluginLoader.load: the loader after the call, with what the call
\* returned (or that it raised)
Load(p) ==
    IF p.cache # None
    THEN [ p EXCEPT !.returned = p.cache, !.raised = FALSE,
                    !.changed = (p.dir # p.scanned), !.trace = << >> ]
    ELSE IF p.dir = None
    THEN [ p EXCEPT !.cache = Some(<< >>), !.returned = Some(<< >>), !.raised = FALSE,
                    !.trace = << >> ]
    ELSE LET res == Scan(SortedGlob(p.dir[1]), << >>)
         IN  IF res.raised
             THEN [ p EXCEPT !.returned = None, !.raised = TRUE,
                             !.trace = res.trace ]
             ELSE [ p EXCEPT !.cache = Some(res.tools), !.returned = Some(res.tools),
                             !.raised = FALSE, !.scanned = p.dir,
                             !.trace = res.trace ]

\* ToolRegistry.register: the entry of that name is set, in place when it
\* exists
RegisterTool(registry, tool) ==
    IF HasName(registry, tool.name)
    THEN [ i \in 1..Len(registry) |->
             IF registry[i].name = tool.name THEN tool ELSE registry[i] ]
    ELSE Append(registry, tool)

\* RegisterPlugin without the check for an existing name
RegisterPluginOverwrites(registry, tool) == RegisterTool(registry, tool)

\* PluginLoader.register_into lines 75-79: one pass of the loop
RegisterPlugin(registry, tool) ==
    IF HasName(registry, tool.name) THEN registry ELSE RegisterTool(registry, tool)

RECURSIVE RegisterAll(_, _)
RegisterAll(registry, tools) ==
    IF tools = << >> THEN registry
    ELSE RegisterAll(RegisterPlugin(registry, Head(tools)), Tail(tools))

\* PluginLoader.register_into
RegisterInto(p) ==
    LET loaded == Load(p)
    IN  IF loaded.raised THEN loaded
        ELSE [ loaded EXCEPT !.registry = RegisterAll(@, loaded.returned[1]),
                             !.merged = TRUE ]

\* a built-in tool of the target registry
BuiltIn(name) == [ name |-> name, file |-> "builtin", cls |-> name, context |-> FALSE ]

\* the target registries register_into is given
Registries == { << >>, << BuiltIn("read_file"), BuiltIn("exec"), BuiltIn("roll_dice") >> }

\* the tools directory: absent, or holding a set of the files
Directories == { None } \cup { Some(d) : d \in SUBSET FileKeys }

PluginInit ==
    /\ exec_enabled = FALSE
    /\ LifeIdle
    /\ CapIdle
    /\ plugins \in { [ PluginsIdle EXCEPT !.dir = d, !.registry = reg ] :
                       d \in Directories, reg \in Registries }
    /\ heartbeat = HeartbeatIdle
    /\ webhook = WebhookIdle

\* a call of loader.load()
PluginLoad ==
    /\ plugins' = Load(plugins)
    /\ UNCHANGED << exec_enabled, life_vars, cap_vars, heartbeat, webhook >>

\* a call of loader.register_into(registry)
PluginRegisterInto ==
    /\ plugins' = RegisterInto(plugins)
    /\ UNCHANGED << exec_enabled, life_vars, cap_vars, heartbeat, webhook >>

\* files are added to or removed from the tools directory, or the
\* directory is created or removed
ChangeDirectory(d) ==
    /\ d # plugins.dir
    /\ plugins' = [ plugins EXCEPT !.dir = d ]
    /\ UNCHANGED << exec_enabled, life_vars, cap_vars, heartbeat, webhook >>

PluginNext ==
    \/ PluginLoad
    \/ PluginRegisterInto
    \/ \E d \in Directories : ChangeDirectory(d)

SpecPlugins == PluginInit /\ [][PluginNext]_vars

---------------------------------------------------------------------------
(* Properties of the plugin loader, checked under SpecPlugins.             *)

\* the file is one load() tries to import
Eligible(key) == ~StartsWithUnderscore(key)

\* the tool types a file defines
ToolTypes(key) == { t \in Range(PluginFiles[key].types) : t.kind = "tool" }

\* the file imports, and each of its tool types can be constructed and
\* named
WellFormed(key) ==
    /\ ~PluginFiles[key].import_raises
    /\ \A t \in ToolTypes(key) :
          /\ t.with_context = "ok" \/ (t.with_context = "rejects_context" /\ t.no_arg = "ok")
             \/ (t.with_context = "type_error_in_body" /\ t.no_arg = "ok")
          /\ t.tool_name # None

\* key1 comes before key2 in lexicographic filename order
Before(key1, key2) ==
    \E i, j \in 1..Len(FileOrder) : i < j /\ FileOrder[i] = key1 /\ FileOrder[j] = key2

\* the tools of the mapping that come from the file
ToolsFrom(tools, key) == { tools[i].name : i \in { j \in 1..Len(tools) : tools[j].file = key } }

(* C13: load() never raises; a file that raises during import contributes  *)
(* no tools, and whatever files raise, before or after it in lexicographic *)
(* order, every tool of every well-formed eligible file is in the mapping  *)
(* load() returns (under its own file unless an earlier file of the scan   *)
(* has a tool of that name).                                               *)
C13_ImportFailureIsIsolated ==
    /\ ~plugins.raised
    /\ plugins.returned # None => plugins.returned = plugins.cache
    /\ plugins.scanned # None =>
          \A key \in plugins.scanned[1] :
              /\ ~Eligible(key) => ToolsFrom(plugins.cache[1], key) = { }
              /\ PluginFiles[key].import_raises => ToolsFrom(plugins.cache[1], key) = { }
              /\ (Eligible(key) /\ WellFormed(key)) =>
                    \A t \in ToolTypes(key) :
                        /\ HasName(plugins.cache[1], t.tool_name[1])
                        /\ (\A other \in plugins.scanned[1] :
                               (Eligible(other) /\ Before(other, key)) =>
                                   \A u \in ToolTypes(other) : u.tool_name # t.tool_name)
                           => t.tool_name[1] \in ToolsFrom(plugins.cache[1], key)

\* the scan met a file that raises during import between two well-formed
\* files and returned the tools of both
C13_Witness ==
    /\ plugins.scanned # None
    /\ { "dice", "faulty", "greet" } \subseteq plugins.scanned[1]
    /\ plugins.returned = plugins.cache
    /\ "roll_dice" \in ToolsFrom(plugins.cache[1], "dice")
    /\ "greet" \in ToolsFrom(plugins.cache[1], "greet")

\* the names of a mapping
Names(tools) == { tools[i].name : i \in 1..Len(tools) }

(* C14: register_into never overwrites or removes an entry of the target   *)
(* registry: every entry the registry had is still there, unchanged, after *)
(* any step (so for a name that is also in the plugin cache the built-in   *)
(* stays); the first register_into makes the registry's names the union of *)
(* its prior names and the plugin names, every added entry being the       *)
(* cache's tool; and a register_into after that changes nothing.          *)
C14_RegisterIntoKeepsExisting ==
    [][ /\ Len(plugins'.registry) >= Len(plugins.registry)
        /\ SubSeq(plugins'.registry, 1, Len(plugins.registry)) = plugins.registry
        /\ (~plugins.merged /\ plugins'.merged) =>
              /\ plugins'.cache # None
              /\ Names(plugins'.registry) = Names(plugins.registry) \cup Names(plugins'.cache[1])
              /\ \A i \in (Len(plugins.registry) + 1)..Len(plugins'.registry) :
                    plugins'.registry[i] \in Range(plugins'.cache[1])
        /\ plugins.merged =>
              /\ plugins'.registry = plugins.registry
              /\ plugins'.cache = plugins.cache
              /\ plugins'.merged
      ]_vars

\* plugins named like two built-ins were merged into a registry that had
\* them: the built-ins stayed and the other plugin tools were added
C14_Witness ==
    /\ plugins.merged
    /\ \E i \in 1..Len(plugins.cache[1]) : plugins.cache[1][i].name = "roll_dice"
    /\ \E i \in 1..Len(plugins.cache[1]) : plugins.cache[1][i].name = "exec"
    /\ BuiltIn("roll_dice") \in Range(plugins.registry)
    /\ BuiltIn("exec") \in Range(plugins.registry)
    /\ \E i \in 1..Len(plugins.registry) :
          plugins.registry[i].name = "greet" /\ plugins.registry[i].file = "greet"

\* the type can be constructed, with the context or without
Constructible(t) ==
    \/ t.with_context = "ok"
    \/ t.with_context \in { "rejects_context", "type_error_in_body" } /\ t.no_arg = "ok"

\* the file, when scanned, yields a tool called `name` from its i-th class:
\* it imports, the class is a tool type that can be constructed, and no
\* class before it stops the file's scan
Yields(key, i, name) ==
    LET types == PluginFiles[key].types
    IN  /\ ~PluginFiles[key].import_raises
        /\ types[i].kind = "tool"
        /\ Constructible(types[i])
        /\ types[i].tool_name = Some(name)
        /\ \A j \in 1..(i - 1) :
              ~(types[j].kind = "tool" /\ Constructible(types[j]) /\ types[j].tool_name = None)

(* C15: the mapping one load pass builds holds at most one tool per name,  *)
(* and when several scanned files yield a tool of the same name the one    *)
(* kept comes from the file that is first in lexicographic filename order: *)
(* no file before the tool's own file yields that name, and every name a   *)
(* scanned file yields is in the mapping.                                  *)
C15_FirstDiscoveredWins ==
    plugins.scanned # None =>
        LET tools == plugins.cache[1]
            scanned == { key \in plugins.scanned[1] : Eligible(key) }
        IN  /\ \A i, j \in 1..Len(tools) : tools[i].name = tools[j].name => i = j
            /\ \A i \in 1..Len(tools) :
                  /\ tools[i].file \in scanned
                  /\ \E k \in 1..Len(PluginFiles[tools[i].file].types) :
                        /\ Yields(tools[i].file, k, tools[i].name)
                        /\ PluginFiles[tools[i].file].types[k].cls = tools[i].cls
                  /\ \A other \in scanned :
                        Before(other, tools[i].file) =>
                            \A k \in 1..Len(PluginFiles[other].types) :
                                ~Yields(other, k, tools[i].name)
            /\ \A key \in scanned :
                  \A k \in 1..Len(PluginFiles[key].types) :
                      \A name \in { "roll_dice", "greet", "exec", "list_notes", "locked",
                                    "save_note", "weather", "never_seen", "helper" } :
                          Yields(key, k, name) => HasName(tools, name)

\* dice.py and weather.py both define a tool called roll_dice: the one of
\* dice.py was kept, and weather.py's other tool was loaded
C15_Witness ==
    /\ plugins.scanned # None
    /\ { "dice", "weather" } \subseteq plugins.scanned[1]
    /\ \E i \in 1..Len(plugins.cache[1]) :
          /\ plugins.cache[1][i].name = "roll_dice"
          /\ plugins.cache[1][i].file = "dice"
          /\ plugins.cache[1][i].cls = "DiceTool"
    /\ "weather" \in ToolsFrom(plugins.cache[1], "weather")

\* the step is a call of load() or register_into() that changed the
\* loader's record
LoaderCall == plugins'.dir = plugins.dir /\ plugins' # plugins

(* C21: load() is idempotent on a loader: once a call has set the cache -  *)
(* to the tools found, or to the empty mapping when there was no tools     *)
(* directory - the cache never changes, and every later call returns that  *)
(* mapping and imports and constructs nothing, whatever has been added to, *)
(* removed from or changed in the tools directory in between.              *)
C21_LoadIsIdempotent ==
    [][ /\ plugins'.returned # None => plugins'.returned = plugins'.cache
        /\ plugins.cache # None =>
              /\ plugins'.cache = plugins.cache
              /\ plugins'.scanned = plugins.scanned
              /\ LoaderCall =>
                    /\ plugins'.returned = plugins.cache
                    /\ plugins'.trace = << >>
                    /\ ~plugins'.raised
        /\ (plugins.cache = None /\ plugins.dir = None /\ LoaderCall) =>
              /\ plugins'.cache = Some(<< >>)
              /\ plugins'.trace = << >>
      ]_vars

\* the first call found no tools directory; the directory was then created
\* with plugin files in it, and a second call returned the empty mapping
\* without importing anything
C21_Witness ==
    /\ plugins.cache = Some(<< >>)
    /\ plugins.scanned = None
    /\ plugins.changed
    /\ plugins.dir # None
    /\ { "dice", "greet" } \subseteq plugins.dir[1]
    /\ plugins.returned = Some(<< >>)
    /\ plugins.trace = << >>

(* C22: every per-type failure during discovery is isolated: a tool type   *)
(* that raises while it is constructed or while its name is read is not in *)
(* the mapping, and every tool type of a scanned, importable file that can *)
(* be constructed and named is loaded (its name is in the mapping),        *)
(* whatever the other types of its file or of other files do.              *)
C22_TypeFailureIsIsolated ==
    plugins.scanned # None =>
        \A key \in plugins.scanned[1] :
            (Eligible(key) /\ ~PluginFiles[key].import_raises) =>
                \A t \in ToolTypes(key) :
                    /\ (Constructible(t) /\ t.tool_name # None) =>
                          HasName(plugins.cache[1], t.tool_name[1])
                    /\ (~Constructible(t) \/ t.tool_name = None) =>
                          \A i \in 1..Len(plugins.cache[1]) :
                              ~(plugins.cache[1][i].file = key /\ plugins.cache[1][i].cls = t.cls)

\* the type of the file whose class is cls
TypeOf(key, cls) == CHOOSE t \in Range(PluginFiles[key].types) : t.cls = cls

\* the constructions of a class in the trace of the last call
Constructions(key, cls) ==
    { i \in 1..Len(plugins.trace) :
        /\ plugins.trace[i].event = "construct"
        /\ plugins.trace[i].file = key
        /\ plugins.trace[i].cls = cls }

(* C23: the loader constructs each discovered tool type with the shared    *)
(* context first and without arguments only when the constructor's         *)
(* signature rejects the context; a type whose constructor accepts the     *)
(* context is constructed exactly once, and when its constructor body      *)
(* fails the type is skipped (it is not in the mapping) rather than        *)
(* constructed again without context.                                      *)
C23_ContextFirstFallbackOnSignature ==
    \A i \in 1..Len(plugins.trace) :
        plugins.trace[i].event = "construct" =>
            LET key == plugins.trace[i].file
                t == TypeOf(key, plugins.trace[i].cls)
                made == Constructions(key, t.cls)
            IN  /\ \E j \in made : plugins.trace[j].context /\ \A k \in made : j <= k
                /\ ~plugins.trace[i].context => t.with_context = "rejects_context"
                /\ t.with_context # "rejects_context" => Cardinality(made) = 1
                /\ (t.with_context \in { "type_error_in_body", "error_in_body" }
                    /\ plugins.cache # None) =>
                      \A k \in 1..Len(plugins.cache[1]) :
                          ~(plugins.cache[1][k].file = key /\ plugins.cache[1][k].cls = t.cls)

---------------------------------------------------------------------------
(* The heartbeat service (nanobot/heartbeat/service.py), as exercised by   *)
(* tests/test_heartbeat_service.py: start() creates the background task    *)
(* that sleeps and ticks while the service runs, stop() cancels it.  A     *)
(* task is a record of its position and of whether its cancellation was    *)
(* requested; a cancelled task ends at its next step.                      *)

NewTask == [ phase |-> "created", cancel_requested |-> FALSE ]

\* HeartbeatStart creating a task on every call
HeartbeatStartAgain(h) ==
    IF ~h.enabled THEN h
    ELSE [ h EXCEPT !.running = TRUE,
                    !.tasks = Append(@, NewTask),
                    !.task = Some(Len(h.tasks) + 1) ]

\* HeartbeatService.start: nothing when disabled or already running, else
\* the background task is created
HeartbeatStart(h) ==
    IF ~h.enabled THEN h
    ELSE IF h.running THEN h
    ELSE [ h EXCEPT !.running = TRUE,
                    !.tasks = Append(@, NewTask),
                    !.task = Some(Len(h.tasks) + 1) ]

\* HeartbeatService.stop: the service no longer runs and its task, if any,
\* is cancelled
HeartbeatStop(h) ==
    [ h EXCEPT !.running = FALSE,
               !.tasks = IF h.task = None THEN @
                         ELSE [ @ EXCEPT ![h.task[1]].cancel_requested = TRUE ],
               !.task = None ]

\* one step of the background task: it ends when cancelled or when the
\* service no longer runs, and sleeps and ticks in turn otherwise
LoopStep(h, t) ==
    LET task == h.tasks[t]
        phase == IF task.cancel_requested THEN "cancelled"
                 ELSE IF task.phase = "ticking" THEN "sleeping"
                 ELSE IF ~h.running THEN "done"
                 ELSE IF task.phase = "created" THEN "sleeping"
                 ELSE "ticking"
    IN  [ h EXCEPT !.tasks[t].phase = phase ]

Ended(task) == task.phase \in { "cancelled", "done" }

HeartbeatInit ==
    /\ exec_enabled = FALSE
    /\ LifeIdle
    /\ CapIdle
    /\ plugins = PluginsIdle
    /\ heartbeat \in { [ HeartbeatIdle EXCEPT !.enabled = e ] : e \in BOOLEAN }
    /\ webhook = WebhookIdle

\* await service.start()
ServiceStart ==
    /\ heartbeat.starts < MaxStarts
    /\ heartbeat' = [ HeartbeatStart(heartbeat) EXCEPT
                        !.starts = @ + 1,
                        !.first_task = IF heartbeat.first_task = None
                                       THEN Some(HeartbeatStart(heartbeat).task)
                                       ELSE @ ]
    /\ UNCHANGED << exec_enabled, life_vars, cap_vars, plugins, webhook >>

\* service.stop()
ServiceStop ==
    /\ heartbeat' = [ HeartbeatStop(heartbeat) EXCEPT !.first_task = None ]
    /\ UNCHANGED << exec_enabled, life_vars, cap_vars, plugins, webhook >>

\* the event loop runs the background task t for one step
ServiceLoop(t) ==
    /\ ~Ended(heartbeat.tasks[t])
    /\ heartbeat' = LoopStep(heartbeat, t)
    /\ UNCHANGED << exec_enabled, life_vars, cap_vars, plugins, webhook >>

HeartbeatNext ==
    \/ ServiceStart
    \/ ServiceStop
    \/ \E t \in 1..Len(heartbeat.tasks) : ServiceLoop(t)

SpecHeartbeat == HeartbeatInit /\ [][HeartbeatNext]_vars

---------------------------------------------------------------------------
(* Properties of the heartbeat service, checked under SpecHeartbeat.       *)

\* the background tasks that are running and were not cancelled
LiveTasks(h) ==
    { t \in 1..Len(h.tasks) : ~Ended(h.tasks[t]) /\ ~h.tasks[t].cancel_requested }

---------------------------------------------------------------------------
(* The webhook server (nanobot/api/webhook.py): POST /notify.  A request   *)
(* is its Authorization header (absent, or a text) and its body: not       *)
(* JSON, JSON that is no object, or an object whose fields message,        *)
(* channel and chat_id are absent, a string or a number.                   *)

AbsentValue == [ type |-> "absent", text |-> << >>, number |-> 0 ]
StringValue(text) == [ type |-> "string", text |-> text, number |-> 0 ]
NumberValue(n) == [ type |-> "number", text |-> << >>, number |-> n ]

\* Python truthiness of body.get(field)
TruthyValue(v) ==
    \/ v.type = "string" /\ v.text # << >>
    \/ v.type = "number" /\ v.number # 0

\* str(v) inside an f-string
ValueText(v) == IF v.type = "string" THEN v.text ELSE NumStr(v.number)

\* the secret a server is configured with, and what secrets.token_urlsafe
\* gives when it is configured with none
ConfiguredSecrets == { << >>, << "s3cret" >> }
RandomTokens == { << "k9Qw-71x" >> }

\* WebhookServer.__init__ lines 31-36: the secret the server checks against
ServerSecret(secret, token) == IF secret # << >> THEN secret ELSE token

\* WebhookServer.__init__
WebhookServer(secret, token, default_channel, default_chat_id) ==
    [ WebhookIdle EXCEPT !.secret = ServerSecret(secret, token),
                         !.ephemeral = (secret = << >>),
                         !.default_channel = default_channel,
                         !.default_chat_id = default_chat_id ]

\* the servers of the model: no defaults, a default channel only, both
Servers ==
    { WebhookServer(secret, token, defaults[1], defaults[2]) :
        secret \in ConfiguredSecrets, token \in RandomTokens,
        defaults \in { << << >>, << >> >>, << << "telegram" >>, << >> >>,
                       << << "telegram" >>, << "42" >> >> } }

\* the Authorization headers a request to a server with `secret` may carry
AuthHeaders(secret) ==
    { None, Some(<< >>), Some(<< "Bearer " >>), Some(<< "Bearer " >> \o secret),
      Some(<< "bearer " >> \o secret), Some(secret),
      Some(<< "Bearer ", "wrong" >>), Some(<< "Bearer " >> \o secret \o << " " >>) }

\* the bodies a request may carry
Bodies ==
    { [ kind |-> k, message |-> AbsentValue, channel |-> AbsentValue, chat_id |-> AbsentValue ] :
        k \in { "invalid", "array" } }
    \cup
    { [ kind |-> "object", message |-> m, channel |-> c, chat_id |-> i ] :
        m \in { AbsentValue, StringValue(<< >>), StringValue(<< "build done" >>), NumberValue(7) },
        c \in { AbsentValue, StringValue(<< >>), StringValue(<< "slack" >>) },
        i \in { AbsentValue, StringValue(<< >>), StringValue(<< "c1" >>) } }

\* _handle_notify lines 60-61: the header is "Bearer " followed by the secret
Authorized(auth, secret) ==
    LET text == IF auth = None THEN << >> ELSE auth[1]
    IN  text # << >> /\ text[1] = "Bearer " /\ Tail(text) = secret

\* _handle_notify lines 84-91: the InboundMessage
NotifyMessage(channel, chat_id, message) ==
    [ channel |-> "system",
      sender_id |-> "webhook",
      chat_id |-> ValueText(channel) \o << ":" >> \o ValueText(chat_id),
      content |-> message.text ]

\* WebhookServer._handle_notify: the status of the response, and the event
\* published if any; a body that is no object makes body.get fail, which
\* the handler does not catch and the framework answers with 500
HandleNotify(server, request) ==
    LET body == request.body
        channel == IF TruthyValue(body.channel) THEN body.channel
                   ELSE StringValue(server.default_channel)
        chat_id == IF TruthyValue(body.chat_id) THEN body.chat_id
                   ELSE StringValue(server.default_chat_id)
    IN  IF ~Authorized(request.auth, server.secret)
        THEN [ status |-> 401, event |-> None ]
        ELSE IF body.kind = "invalid" THEN [ status |-> 400, event |-> None ]
        ELSE IF body.kind # "object" THEN [ status |-> 500, event |-> None ]
        ELSE IF ~TruthyValue(body.message) \/ body.message.type # "string"
        THEN [ status |-> 400, event |-> None ]
        ELSE IF ~TruthyValue(channel) \/ ~TruthyValue(chat_id)
        THEN [ status |-> 400, event |-> None ]
        ELSE [ status |-> 202, event |-> Some(NotifyMessage(channel, chat_id, body.message)) ]

WebhookInit ==
    /\ exec_enabled = FALSE
    /\ LifeIdle
    /\ CapIdle
    /\ plugins = PluginsIdle
    /\ heartbeat = HeartbeatIdle
    /\ webhook \in Servers

\* a POST /notify request is handled
Notify(auth, body) ==
    /\ webhook.handled < MaxRequests
    /\ LET request == [ auth |-> auth, body |-> body ]
           response == HandleNotify(webhook, request)
       IN  /\ bus' = IF response.event = None THEN bus
                     ELSE PublishInbound(bus, response.event[1])
           /\ webhook' = [ webhook EXCEPT
                             !.handled = @ + 1,
                             !.last = Some([ request |-> request,
                                             status |-> response.status,
                                             published |-> response.event # None ]) ]
    /\ UNCHANGED << exec_enabled, spawn_log, runs, running_tasks, cap_vars,
                    plugins, heartbeat >>

WebhookNext == \E auth \in AuthHeaders(webhook.secret), body \in Bodies : Notify(auth, body)

SpecWebhook == WebhookInit /\ [][WebhookNext]_vars

---------------------------------------------------------------------------
(* Properties of the webhook server, checked under SpecWebhook.            *)

\* the field of the payload when it is not empty, else the default
FromPayloadOrDefault(value, default) ==
    IF value.type = "string" /\ value.text # << >> THEN value.text ELSE default

\* the request is one the server accepts: the exact bearer header, a JSON
\* object with a non-empty string message, and a destination
Acceptable(server, request) ==
    /\ request.auth = Some(<< "Bearer " >> \o server.secret)
    /\ request.body.kind = "object"
    /\ request.body.message.type = "string"
    /\ request.body.message.text # << >>
    /\ FromPayloadOrDefault(request.body.channel, server.default_channel) # << >>
    /\ FromPayloadOrDefault(request.body.chat_id, server.default_chat_id) # << >>

(* C26: the server's secret is never empty; a notify request publishes to  *)
(* the bus only if its Authorization header is exactly "Bearer " followed  *)
(* by the secret, its JSON body has a non-empty string message, and a      *)
(* non-empty channel and chat_id come from the payload or the defaults;    *)
(* such a request publishes exactly one system event addressed to          *)
(* channel:chat_id and is answered 202; every other request publishes      *)
(* nothing and is answered 401 - whatever its body, when the header is     *)
(* wrong - or 400.                                                         *)
C26_NotifyPublishesOnlyWhenValid ==
    /\ webhook.secret # << >>
    /\ Len(bus) <= webhook.handled
    /\ webhook.last # None =>
          LET request == webhook.last[1].request
              status == webhook.last[1].status
              published == webhook.last[1].published
          IN  /\ published <=> Acceptable(webhook, request)
              /\ Acceptable(webhook, request) =>
                    /\ status = 202
                    /\ bus # << >>
                    /\ bus[Len(bus)] =
                          [ channel |-> "system", sender_id |-> "webhook",
                            chat_id |->
                                FromPayloadOrDefault(request.body.channel, webhook.default_channel)
                                \o << ":" >> \o
                                FromPayloadOrDefault(request.body.chat_id, webhook.default_chat_id),
                            content |-> request.body.message.text ]
              /\ ~Acceptable(webhook, request) => status \in { 401, 400 }
              /\ request.auth # Some(<< "Bearer " >> \o webhook.secret) => status = 401

=============================================================================
